---- MODULE Spec2Model ----
(***************************************************************************)
(* Word-validation subsystem of Trivia Tiles: the usePuzzleValidation hook *)
(* (local rules, dictionary lookup with cache, timeout, retry and request  *)
(* cancellation) and the accepted-word list kept by AppContent.            *)
(*                                                                         *)
(* One step of the model is one run-to-completion stretch of JavaScript:   *)
(* the synchronous part of a validateWord call up to its first await, or   *)
(* the continuation that runs when a promise (fetch, body read, timer)     *)
(* settles, together with every microtask continuation that follows it.    *)
(***************************************************************************)
EXTENDS Integers, Sequences, FiniteSets, TLC

\* ------------------------------------------------------------------ bounds
\* total number of validateWord calls in one behaviour
MaxSubs == 3
\* number of accepted words in one behaviour of the application model
MaxWords == 4
\* number of times the final trivia is opened before 'Continue Playing' is
\* no longer pressed
MaxShown == 3

\* --------------------------------------------------------------- constants
MAX_RETRIES == 2
CACHE_SIZE_LIMIT == 1000
minWordLength == 4

SubIds == 1..MaxSubs

\* ----------------------------------------------------------------- strings
\* A string is a sequence of one-character strings.
ToLowerChar(c) ==
    CASE c = "A" -> "a"
      [] c = "B" -> "b"
      [] OTHER -> c

ToLowerCase(s) == [i \in 1..Len(s) |-> ToLowerChar(s[i])]

RECURSIVE TrimStart(_)
TrimStart(s) == IF s # <<>> /\ Head(s) = " " THEN TrimStart(Tail(s)) ELSE s

RECURSIVE TrimEnd(_)
TrimEnd(s) ==
    IF s # <<>> /\ s[Len(s)] = " " THEN TrimEnd(SubSeq(s, 1, Len(s) - 1)) ELSE s

Trim(s) == TrimEnd(TrimStart(s))

\* word.trim().toLowerCase()
Normalize(word) == ToLowerCase(Trim(word))

\* normalizedWord.includes(c) for a one-character c
Includes(s, c) == \E i \in 1..Len(s) : s[i] = c

\* the center letter handed to the hook by its parent
centerLetter == "A"

\* candidate strings a caller submits
Candidates ==
    { <<"a", "b", "b", "a">>,
      <<" ", "A", "b", "b", "A", " ">>,
      <<"b", "a", "a", "b">>,
      <<"b", "b", "b", "b">>,
      <<"a", "b">>,
      <<" ", "b", "b", " ">> }

\* ------------------------------------------------------------------- cache
\* dictionaryCache is a Map: it iterates in insertion order, set() on a key
\* that is present keeps the key's position, delete() removes one key.
\* The map is held as  older entries (head) ++ filler ++ newer entries (tail)
\* where filler counts entries for words outside Candidates.
CacheKeys(c) ==
    {c.head[i].k : i \in 1..Len(c.head)} \cup {c.tail[i].k : i \in 1..Len(c.tail)}

CacheHas(c, w) == w \in CacheKeys(c)

CacheGet(c, w) ==
    IF \E i \in 1..Len(c.head) : c.head[i].k = w
    THEN c.head[CHOOSE i \in 1..Len(c.head) : c.head[i].k = w].v
    ELSE c.tail[CHOOSE i \in 1..Len(c.tail) : c.tail[i].k = w].v

CacheSize(c) == Len(c.head) + c.filler + Len(c.tail)

\* dictionaryCache.set(word, isValid)
CacheSet(c, w, b) ==
    IF \E i \in 1..Len(c.head) : c.head[i].k = w
    THEN [c EXCEPT !.head =
            [i \in 1..Len(c.head) |->
                IF c.head[i].k = w THEN [c.head[i] EXCEPT !.v = b] ELSE c.head[i]]]
    ELSE IF \E i \in 1..Len(c.tail) : c.tail[i].k = w
    THEN [c EXCEPT !.tail =
            [i \in 1..Len(c.tail) |->
                IF c.tail[i].k = w THEN [c.tail[i] EXCEPT !.v = b] ELSE c.tail[i]]]
    ELSE [c EXCEPT !.tail = Append(c.tail, [k |-> w, v |-> b])]
\* An eviction that removes the newest entry instead of the oldest one.
DeleteNewestKey(c) ==
    IF c.tail # <<>> THEN [c EXCEPT !.tail = SubSeq(@, 1, Len(@) - 1)]
    ELSE IF c.filler > 0 THEN [c EXCEPT !.filler = @ - 1]
    ELSE IF c.head # <<>> THEN [c EXCEPT !.head = SubSeq(@, 1, Len(@) - 1)]
    ELSE c

\* firstKey = dictionaryCache.keys().next().value; if (firstKey) delete(firstKey)
DeleteFirstKey(c) ==
    IF c.head # <<>>
    THEN IF Head(c.head).k # <<>> THEN [c EXCEPT !.head = Tail(c.head)] ELSE c
    ELSE IF c.filler > 0
    THEN [c EXCEPT !.filler = c.filler - 1]
    ELSE IF c.tail # <<>>
    THEN IF Head(c.tail).k # <<>> THEN [c EXCEPT !.tail = Tail(c.tail)] ELSE c
    ELSE c

\* if (dictionaryCache.size >= CACHE_SIZE_LIMIT) { delete the first key }
CacheSizeManagement(c) ==
    IF CacheSize(c) >= CACHE_SIZE_LIMIT THEN DeleteFirstKey(c) ELSE c

\* ------------------------------------------------------------------ errors
\* A retry list that also holds the rate-limit kind.
RetryableTypesWithRateLimit ==
    {"NETWORK_ERROR", "API_UNAVAILABLE", "TIMEOUT", "API_RATE_LIMIT"}

RetryableTypes == {"NETWORK_ERROR", "API_UNAVAILABLE", "TIMEOUT"}

\* An error object: its name, whether its message contains 'fetch' or
\* 'timeout', and its type when it is a DictionaryAPIError ("" otherwise).
Err(name, fetchMsg, timeoutMsg, type) ==
    [name |-> name, fetchMsg |-> fetchMsg, timeoutMsg |-> timeoutMsg, type |-> type]

NullErr == Err("null", FALSE, FALSE, "")
\* TypeError thrown by fetch for a network failure
NetworkTypeError(fetchMsg) == Err("TypeError", fetchMsg, FALSE, "")
\* TypeError thrown by reading a property of null
NullDerefTypeError == Err("TypeError", FALSE, FALSE, "")
\* DOMException thrown by fetch / body read when the signal was aborted
AbortDOMException == Err("AbortError", FALSE, FALSE, "")
\* new Error('timeout'), the reason the timeout callback aborts with
TimeoutReason == Err("Error", FALSE, TRUE, "")
SyntaxErr == Err("SyntaxError", FALSE, FALSE, "")
DictionaryAPIError(type) == Err("DictionaryAPIError", FALSE, FALSE, type)

NoResponse == 0

\* getErrorType(error, response); "THROWS" when error is null (error.name)
getErrorType(error, status) ==
    IF error = NullErr THEN "THROWS"
    ELSE IF error.name = "TypeError" /\ error.fetchMsg THEN "NETWORK_ERROR"
    ELSE IF error.name = "AbortError" /\ error.timeoutMsg THEN "TIMEOUT"
    ELSE IF status # NoResponse /\ status = 429 THEN "API_RATE_LIMIT"
    ELSE IF status # NoResponse /\ status >= 500 THEN "API_UNAVAILABLE"
    ELSE IF status # NoResponse /\ status = 404 THEN "WORD_NOT_FOUND"
    ELSE "UNKNOWN"

getErrorMessage(errorType) ==
    CASE errorType = "NETWORK_ERROR" ->
            "No internet connection. Please check your network and try again."
      [] errorType = "API_RATE_LIMIT" ->
            "Too many requests. Please wait a moment and try again."
      [] errorType = "API_UNAVAILABLE" ->
            "Dictionary service is temporarily unavailable. Please try again later."
      [] errorType = "TIMEOUT" -> "Request timed out. Please try again."
      [] errorType = "WORD_NOT_FOUND" -> "Not a valid English word."
      [] errorType = "INVALID_RESPONSE" -> "Received invalid data. Please try again."
      [] OTHER -> "Error validating word. Please try again."

\* ------------------------------------------------------------------- state
VARIABLES
    trackEventThrows,    \* does the telemetry sink throw when trackEvent is called
    puzzleData,          \* the loaded puzzle (the length of its validWords), or none
    signalHasAbort,      \* does the runtime's AbortSignal object have an abort method
    dictionaryCache,     \* the module-level Map
    abortControllerRef,  \* id of the call whose controller is stored, 0 = null
    isValidating,        \* loading state of the hook
    errorMessage,        \* error message of the hook, "null" = null
    foundWords,          \* accepted-word list of the parent component
    subs,                \* validateWord calls that are suspended at an await
    nCalls,              \* number of validateWord calls made so far
    answered,            \* history: the words the dictionary service has answered
                         \* for (found, empty result or not found), with the answer
    last,                \* what the latest step completed: the outcome of the
                         \* validateWord call it finished, NoLast if it finished none
    showFinalTrivia,     \* AppContent state
    triviaCompleted,     \* AppContent state
    playedPuzzles,       \* usePremiumContent state
    purchasedCredits,    \* usePremiumContent state
    isCorrect,           \* state of the mounted FinalTrivia, FALSE when none is mounted
    onCorrectTimers,     \* pending setTimeout(() => onCorrect(), 1500) callbacks, oldest
                         \* first, each with the playedPuzzles and purchasedCredits of
                         \* the render whose handleTriviaComplete it holds
    events               \* telemetry: how often trackEvent was called with
                         \* 'Clue Unlocked', 'Final Trivia Shown', 'Final Trivia
                         \* Success', and with 'Valid Word' after a 'Final Trivia
                         \* Success'

appVars == <<showFinalTrivia, triviaCompleted, playedPuzzles, purchasedCredits, isCorrect,
             onCorrectTimers, events>>

vars == <<trackEventThrows, puzzleData, signalHasAbort, dictionaryCache, abortControllerRef, isValidating,
          errorMessage, foundWords, subs, nCalls, answered, last, appVars>>

EmptyCache == [head |-> <<>>, filler |-> 0, tail |-> <<>>]

\* a full cache whose oldest entry is a candidate word
FullCache ==
    [head |-> << [k |-> <<"a", "b", "b", "a">>, v |-> TRUE] >>,
     filler |-> CACHE_SIZE_LIMIT - 1, tail |-> <<>>]

NoLast ==
    [outcome |-> "none", errType |-> "", lookups |-> 0, superseded |-> FALSE,
     signal |-> "live", onValid |-> FALSE, errSet |-> FALSE, apiErrorEvent |-> FALSE,
     caught |-> NullErr, status |-> NoResponse, stored |-> "no",
     rejected |-> FALSE, inputCleared |-> FALSE]

\* puzzleData === null
NoEvents == [clueUnlocked |-> 0, finalShown |-> 0, finalSuccess |-> 0,
             validAfterSuccess |-> 0]

NoPuzzle == [loaded |-> FALSE, total |-> 0]

\* a puzzle whose validWords list has n entries
Puzzle(n) == [loaded |-> TRUE, total |-> n]

\* the lengths of validWords the puzzle service may deliver
PuzzleTotals == {0, 1, 4, 10}

Init ==
    /\ trackEventThrows = FALSE
    /\ puzzleData = NoPuzzle
    /\ signalHasAbort \in BOOLEAN
    /\ dictionaryCache \in {EmptyCache, FullCache}
    /\ abortControllerRef = 0
    /\ isValidating = FALSE
    /\ errorMessage = "null"
    /\ foundWords = <<>>
    /\ subs = << >>
    /\ nCalls = 0
    /\ answered = << >>
    /\ last = NoLast
    /\ showFinalTrivia = FALSE
    /\ triviaCompleted = FALSE
    /\ playedPuzzles = 0
    /\ purchasedCredits = 0
    /\ isCorrect = FALSE
    /\ onCorrectTimers = <<>>
    /\ events = NoEvents

\* the initial state with a telemetry sink that throws
InitTelemetryDown ==
    /\ trackEventThrows = TRUE
    /\ puzzleData = NoPuzzle
    /\ signalHasAbort \in BOOLEAN
    /\ dictionaryCache \in {EmptyCache, FullCache}
    /\ abortControllerRef = 0
    /\ isValidating = FALSE
    /\ errorMessage = "null"
    /\ foundWords = <<>>
    /\ subs = << >>
    /\ nCalls = 0
    /\ answered = << >>
    /\ last = NoLast
    /\ showFinalTrivia = FALSE
    /\ triviaCompleted = FALSE
    /\ playedPuzzles = 0
    /\ purchasedCredits = 0
    /\ isCorrect = FALSE
    /\ onCorrectTimers = <<>>
    /\ events = NoEvents

\* ------------------------------------------------- AppContent: progress
\* TRIVIA_UNLOCK_THRESHOLDS = [0.25, 0.40, 0.60, 0.80], in hundredths
TRIVIA_UNLOCK_THRESHOLDS == <<25, 40, 60, 80>>

\* progress as the fraction num / den (den > 0): 0 without a puzzle or with an
\* empty validWords list, else foundWords.length / validWords.length.  The
\* quotient of two small integers and a threshold literal are both rounded to
\* the nearest double, so comparing the exact fractions gives what >= gives.
progressOf(fw, pd) ==
    IF ~pd.loaded \/ pd.total = 0 THEN [num |-> 0, den |-> 1]
    ELSE [num |-> Len(fw), den |-> pd.total]

progress == progressOf(foundWords, puzzleData)

\* p > threshold: a clue that unlocks only beyond its threshold.
MoreThan(p, threshold) == p.num * 100 > threshold * p.den

\* p >= threshold, the threshold in hundredths
AtLeast(p, threshold) == p.num * 100 >= threshold * p.den

\* TRIVIA_UNLOCK_THRESHOLDS.filter(threshold => progress >= threshold).length
unlockedCluesCountOf(fw, pd) ==
    IF ~pd.loaded THEN 0
    ELSE Cardinality({i \in 1..Len(TRIVIA_UNLOCK_THRESHOLDS) :
                        AtLeast(progressOf(fw, pd), TRIVIA_UNLOCK_THRESHOLDS[i])})

unlockedCluesCount == unlockedCluesCountOf(foundWords, puzzleData)

\* ------------------------------------------- AppContent, the final trivia
FINAL_TRIVIA_THRESHOLD == 90

\* (foundWords.length - 1) / puzzleData.validWords.length >= t in IEEE
\* arithmetic: with no valid words the quotient is -Infinity for length 0,
\* NaN for length 1 and Infinity beyond
PreviousAtLeast(fw, pd, t) ==
    IF pd.total = 0 THEN Len(fw) > 1
    ELSE (Len(fw) - 1) * 100 >= t * pd.total

\* The unlockedCluesCount memo: is trackEvent('Trivia', 'Clue Unlocked', ...)
\* called when it is recomputed for fw?
clueUnlockedEmitted(fw, pd) ==
    /\ pd.loaded
    /\ unlockedCluesCountOf(fw, pd) >
           Cardinality({i \in 1..Len(TRIVIA_UNLOCK_THRESHOLDS) :
                           PreviousAtLeast(fw, pd, TRIVIA_UNLOCK_THRESHOLDS[i])})

\* The condition of the final trivia effect without the completion test.
finalTriviaEffectIgnoringCompleted(p, show, completed) ==
    AtLeast(p, FINAL_TRIVIA_THRESHOLD) /\ ~show

\* The condition under which the final trivia effect calls
\* setShowFinalTrivia(true)
finalTriviaEffect(p, show, completed) ==
    AtLeast(p, FINAL_TRIVIA_THRESHOLD) /\ ~show /\ ~completed

\* AppContent renders again with the accepted-word list fw: the
\* unlockedCluesCount memo is recomputed and the final trivia effect runs.
Rerender(fw) ==
    LET opens == finalTriviaEffect(progressOf(fw, puzzleData), showFinalTrivia,
                                   triviaCompleted)
    IN  /\ showFinalTrivia' = (showFinalTrivia \/ opens)
        /\ events' = [events EXCEPT
              !.clueUnlocked = @ + (IF clueUnlockedEmitted(fw, puzzleData) THEN 1 ELSE 0),
              !.finalShown = @ + (IF opens THEN 1 ELSE 0),
              !.validAfterSuccess = @ + (IF events.finalSuccess > 0 THEN 1 ELSE 0)]
        /\ UNCHANGED <<triviaCompleted, playedPuzzles, purchasedCredits, isCorrect,
                       onCorrectTimers>>

\* ------------------------------------------------------ usePremiumContent
FREE_PUZZLE_LIMIT == 3

hasAccessOf(played, credits) == played < FREE_PUZZLE_LIMIT \/ credits > 0

hasAccess == hasAccessOf(playedPuzzles, purchasedCredits)

\* consumeCredit as created by the render that saw the state c: the branch is
\* chosen by c, the update is applied to the current state
consumeCredit(c) ==
    IF c.purchasedCredits > 0
    THEN purchasedCredits' = purchasedCredits - 1 /\ UNCHANGED playedPuzzles
    ELSE IF c.playedPuzzles < FREE_PUZZLE_LIMIT
    THEN playedPuzzles' = playedPuzzles + 1 /\ UNCHANGED purchasedCredits
    ELSE UNCHANGED <<playedPuzzles, purchasedCredits>>

Live == DOMAIN subs

Without(f, s) == [x \in DOMAIN f \ {s} |-> f[x]]

\* -------------------------------------------------- validateWord, the tail
\* The part of validateWord after  await checkDictionaryAPI(...)  for call s:
\* res.threw = FALSE: the check returned res.value;
\* res.threw = TRUE:  the check threw res.error.  Then the finally block.
\* caught and status are what the catch block of the check was entered with
\* (NullErr if it was not entered), stored tells whether the check stored its
\* result under a new key or under a key that was present; they are recorded
\* in last.
Returned(b) == [threw |-> FALSE, value |-> b, error |-> NullErr]
Threw(e) == [threw |-> TRUE, value |-> FALSE, error |-> e]

ReportsError(e) == e.name # "AbortError" \/ e.timeoutMsg

\* The catch block showing the name of what it caught.
CatchMessageRaw(e) ==
    IF e.name = "DictionaryAPIError" THEN e.type ELSE e.name

CatchMessage(e) ==
    IF e.name = "DictionaryAPIError" THEN getErrorMessage(e.type)
    ELSE "Error validating word. Please try again."

Outcome(res) ==
    IF ~res.threw THEN (IF res.value THEN "accepted" ELSE "rejectedRemote")
    ELSE IF ReportsError(res.error) THEN "errored" ELSE "aborted"

\* A parent callback that puts the new word in front.
handleValidWordInFront(fw, word) == <<word>> \o fw

\* A parent callback that records the word twice.
handleValidWordTwice(fw, word) == Append(Append(fw, word), word)

\* handleValidWord: setFoundWords(prev => [...prev, word])
handleValidWord(fw, word) == Append(fw, word)

\* An exception of the telemetry sink, thrown by trackEvent.
SinkErr == Err("Error", FALSE, FALSE, "")

\* Does the promise of a validateWord call that got res from its remote check
\* reject?  Every branch but the silent one for an aborted check calls
\* trackEvent (directly or through onValidWord); an exception of the sink in
\* the try block is caught and reported with trackEvent again, and the
\* exception of that call leaves validateWord after the finally block.
Rejects(res) == trackEventThrows /\ (res.threw => ReportsError(res.error))

\* WordInput.handleSubmit:  await validateWord(input); setInput('')
\* Is setInput('') reached?
handleSubmitClears(rejected) == ~rejected

Resume(s, res, caught, status, stored) ==
    LET me == subs[s]
    IN  /\ foundWords' =
            IF ~res.threw /\ res.value THEN handleValidWord(foundWords, me.word)
            ELSE foundWords
        /\ errorMessage' =
            IF ~res.threw
            THEN (IF trackEventThrows THEN CatchMessage(SinkErr)
                  ELSE IF res.value THEN "null" ELSE "Not a valid English word.")
            ELSE IF ReportsError(res.error) THEN CatchMessage(res.error)
            ELSE errorMessage
        /\ isValidating' = FALSE
        /\ abortControllerRef' = 0
        /\ subs' = Without(subs, s)
        /\ last' =
            [outcome |-> Outcome(res),
             errType |-> IF res.threw THEN res.error.type ELSE "",
             lookups |-> me.lookups, superseded |-> me.superseded, signal |-> me.signal,
             caught |-> caught, status |-> status, stored |-> stored,
             onValid |-> ~res.threw /\ res.value,
             errSet |-> IF res.threw THEN ReportsError(res.error)
                        ELSE ~res.value \/ trackEventThrows,
             apiErrorEvent |-> IF res.threw THEN ReportsError(res.error)
                               ELSE trackEventThrows,
             rejected |-> Rejects(res),
             inputCleared |-> handleSubmitClears(Rejects(res))]
        /\ IF ~res.threw /\ res.value
           THEN Rerender(handleValidWord(foundWords, me.word))
           ELSE UNCHANGED appVars
        /\ UNCHANGED <<trackEventThrows, puzzleData, signalHasAbort, nCalls>>

\* ------------------------------------------- checkDictionaryAPI, the catch
\* The catch block of checkDictionaryAPI for call s, error e and the response
\* status seen so far (NoResponse when fetch did not resolve).
CatchInCheck(s, e, status) ==
    IF e.name = "AbortError" /\ ~e.timeoutMsg
    THEN Resume(s, Threw(e), e, status, "no")
    ELSE LET errorType ==
                IF e.name = "DictionaryAPIError" THEN e.type ELSE getErrorType(e, status)
             shouldRetry ==
                subs[s].retry < MAX_RETRIES /\ errorType \in RetryableTypes
         IN  IF shouldRetry
             THEN /\ subs' = [subs EXCEPT ![s].pc = "delay", ![s].timer = "off"]
                  /\ last' = NoLast
                  /\ UNCHANGED <<appVars, trackEventThrows, puzzleData, signalHasAbort, abortControllerRef, isValidating,
                                 errorMessage, foundWords, nCalls>>
             ELSE Resume(s, Threw(DictionaryAPIError(errorType)), e, status, "no")

\* ----------------------------------------------- checkDictionaryAPI, entry
\* The part of checkDictionaryAPI before its await, for a call record me that
\* enters with retry count r: a cache hit returns at once, a miss runs the
\* cache size management and sends the request with the timeout armed.
EnterMiss(me, r) ==
    [me EXCEPT !.pc = "fetch", !.retry = r, !.lookups = @ + 1, !.timer = "armed"]

\* ------------------------------------------------ validateWord, up to await
ToUpperChar(c) ==
    CASE c = "a" -> "A"
      [] c = "b" -> "B"
      [] OTHER -> c

LengthMessage == "Words must be at least 4 letters long."
CenterMessage(c) ==
    IF ToUpperChar(c) = "A" THEN "Word must contain the letter \"A\"."
    ELSE "Word must contain the letter \"B\"."
DuplicateMessage == "You already found this word!"

\* Rules checked with the center-letter rule ahead of the length rule.
FirstFailureCenterFirst(normalizedWord, validWords) ==
    IF ~Includes(normalizedWord, ToLowerChar(centerLetter))
    THEN CenterMessage(centerLetter)
    ELSE IF ~(Len(normalizedWord) >= minWordLength) THEN LengthMessage
    ELSE IF \E j \in 1..Len(validWords) : ToLowerCase(validWords[j]) = normalizedWord
    THEN DuplicateMessage
    ELSE "null"

\* Rules without the center-letter rule.
FirstFailureNoCenterRule(normalizedWord, validWords) ==
    IF ~(Len(normalizedWord) >= minWordLength) THEN LengthMessage
    ELSE IF \E j \in 1..Len(validWords) : ToLowerCase(validWords[j]) = normalizedWord
    THEN DuplicateMessage
    ELSE "null"

\* Rules without the duplicate rule.
FirstFailureNoDuplicateRule(normalizedWord, validWords) ==
    IF ~(Len(normalizedWord) >= minWordLength) THEN LengthMessage
    ELSE IF ~Includes(normalizedWord, ToLowerChar(centerLetter))
    THEN CenterMessage(centerLetter)
    ELSE "null"

\* validationChecks: the message of the first rule that fails, "null" if none
FirstFailure(normalizedWord, validWords) ==
    IF ~(Len(normalizedWord) >= minWordLength) THEN LengthMessage
    ELSE IF ~Includes(normalizedWord, ToLowerChar(centerLetter))
    THEN CenterMessage(centerLetter)
    ELSE IF \E j \in 1..Len(validWords) : ToLowerCase(validWords[j]) = normalizedWord
    THEN DuplicateMessage
    ELSE "null"

\* if (abortControllerRef.current) abortControllerRef.current.abort();
\* every call that is still suspended is superseded by the new call
AbortPrevious ==
    [x \in DOMAIN subs |->
        [subs[x] EXCEPT
            !.superseded = TRUE,
            !.signal = IF x = abortControllerRef /\ @ = "live" THEN "caller" ELSE @]]

NewCall(w) ==
    [word |-> w, pc |-> "start", hitVal |-> FALSE, retry |-> 0,
     lookups |-> 0, signal |-> "live", timer |-> "off", superseded |-> FALSE]

validateWord(word) ==
    LET id == nCalls + 1
        normalizedWord == Normalize(word)
        failure == FirstFailure(normalizedWord, foundWords)
        me == NewCall(normalizedWord)
    IN  /\ puzzleData.loaded        \* WordInput is rendered only with a puzzle
        /\ nCalls < MaxSubs
        /\ nCalls' = id
        /\ abortControllerRef' = id
        /\ UNCHANGED <<appVars, trackEventThrows, puzzleData, signalHasAbort, foundWords, answered>>
        /\ IF failure # "null"
           THEN /\ errorMessage' = failure
                /\ subs' = AbortPrevious
                /\ last' = [NoLast EXCEPT !.outcome = "rejectedLocal", !.errSet = TRUE,
                                         !.rejected = trackEventThrows,
                                         !.inputCleared = handleSubmitClears(trackEventThrows)]
                /\ UNCHANGED <<isValidating, dictionaryCache>>
           ELSE /\ errorMessage' = "null"
                /\ isValidating' = TRUE
                /\ last' = NoLast
                /\ IF CacheHas(dictionaryCache, normalizedWord)
                   THEN /\ subs' = (id :> [me EXCEPT !.pc = "hit",
                                      !.hitVal = CacheGet(dictionaryCache, normalizedWord)])
                                   @@ AbortPrevious
                        /\ UNCHANGED dictionaryCache
                   ELSE /\ subs' = (id :> EnterMiss(me, 0)) @@ AbortPrevious
                        /\ dictionaryCache' = CacheSizeManagement(dictionaryCache)

\* the call resumes after  await checkDictionaryAPI(...)  returned a cached value
CacheHitResumes(s) ==
    /\ s \in Live
    /\ subs[s].pc = "hit"
    /\ Resume(s, Returned(subs[s].hitVal), NullErr, NoResponse, "no")
    /\ UNCHANGED <<dictionaryCache, answered>>

\* ----------------------------------------------------- fetch and its timer
\* A continuation whose promise is already settled is a microtask: it runs
\* before any timer or network event.  Call s has one when its check returned
\* from the cache or when the request it awaits carries an aborted signal.
HasMicrotask(s) ==
    \/ subs[s].pc = "hit"
    \/ subs[s].pc \in {"fetch", "body"} /\ subs[s].signal # "live"

MicrotaskPending == \E s \in Live : HasMicrotask(s)

Statuses == {200, 400, 404, 429, 500}

\* the timeout callback of fetchWithTimeout
TimeoutFires(s) ==
    /\ s \in Live
    /\ ~MicrotaskPending
    /\ subs[s].pc = "fetch"
    /\ subs[s].timer = "armed"
    /\ subs' = [subs EXCEPT
                  ![s].timer = "fired",
                  ![s].signal = IF signalHasAbort /\ @ = "live" THEN "timeout" ELSE @]
    /\ last' = NoLast
    /\ UNCHANGED <<appVars, trackEventThrows, puzzleData, signalHasAbort, dictionaryCache, abortControllerRef, isValidating,
                   errorMessage, foundWords, nCalls, answered>>

\* fetch resolves with a response of the given status
FetchResolves(s, status) ==
    /\ s \in Live
    /\ ~MicrotaskPending
    /\ subs[s].pc = "fetch"
    /\ subs[s].signal = "live"
    /\ UNCHANGED dictionaryCache
    /\ answered' = IF status = 404 THEN (subs[s].word :> FALSE) @@ answered ELSE answered
    /\ IF status = 200
       THEN /\ subs' = [subs EXCEPT ![s].pc = "body", ![s].timer = "off"]
            /\ last' = NoLast
            /\ UNCHANGED <<appVars, trackEventThrows, puzzleData, signalHasAbort, abortControllerRef, isValidating,
                           errorMessage, foundWords, nCalls>>
       ELSE LET errorType == getErrorType(NullErr, status)
            IN  CatchInCheck(s, IF errorType = "THROWS" THEN NullDerefTypeError
                                ELSE DictionaryAPIError(errorType), status)

\* A network failure that is remembered in the cache as "not a word".
FetchRejectsCachingFalse(s, fetchMsg) ==
    /\ s \in Live
    /\ ~MicrotaskPending
    /\ subs[s].pc = "fetch"
    /\ subs[s].signal = "live"
    /\ dictionaryCache' = CacheSet(dictionaryCache, subs[s].word, FALSE)
    /\ UNCHANGED answered
    /\ CatchInCheck(s, NetworkTypeError(fetchMsg), NoResponse)

\* fetch rejects with a TypeError (network failure); fetchMsg: the browser's
\* message contains 'fetch' ("Failed to fetch") or does not ("Load failed")
FetchRejects(s, fetchMsg) ==
    /\ s \in Live
    /\ ~MicrotaskPending
    /\ subs[s].pc = "fetch"
    /\ subs[s].signal = "live"
    /\ UNCHANGED <<dictionaryCache, answered>>
    /\ CatchInCheck(s, NetworkTypeError(fetchMsg), NoResponse)

\* fetch or the body read rejects because the signal is aborted
AbortRejects(s) ==
    /\ s \in Live
    /\ subs[s].pc \in {"fetch", "body"}
    /\ subs[s].signal # "live"
    /\ UNCHANGED <<dictionaryCache, answered>>
    /\ CatchInCheck(s, IF subs[s].signal = "caller" THEN AbortDOMException
                       ELSE TimeoutReason,
                    IF subs[s].pc = "body" THEN 200 ELSE NoResponse)

\* response.json() settles
Bodies == {"entries", "noWord", "empty", "object", "malformed"}

BodyArrives(s, body) ==
    /\ s \in Live
    /\ ~MicrotaskPending
    /\ subs[s].pc = "body"
    /\ subs[s].signal = "live"
    /\ IF body = "malformed"
       THEN /\ CatchInCheck(s, SyntaxErr, 200)
            /\ UNCHANGED <<dictionaryCache, answered>>
       ELSE IF body = "object"
       THEN /\ CatchInCheck(s, DictionaryAPIError("INVALID_RESPONSE"), 200)
            /\ UNCHANGED <<dictionaryCache, answered>>
       ELSE LET isValid == body = "entries"
            IN  /\ dictionaryCache' = CacheSet(dictionaryCache, subs[s].word, isValid)
                /\ answered' = (subs[s].word :> isValid) @@ answered
                /\ Resume(s, Returned(isValid), NullErr, 200,
                          IF CacheHas(dictionaryCache, subs[s].word)
                          THEN "present" ELSE "new")

\* the retry delay is over: checkDictionaryAPI(word, signal, retryCount + 1)
RetryDelayElapses(s) ==
    /\ s \in Live
    /\ ~MicrotaskPending
    /\ subs[s].pc = "delay"
    /\ UNCHANGED answered
    /\ IF CacheHas(dictionaryCache, subs[s].word)
       THEN /\ Resume(s, Returned(CacheGet(dictionaryCache, subs[s].word)),
                      NullErr, NoResponse, "no")
            /\ UNCHANGED dictionaryCache
       ELSE /\ dictionaryCache' = CacheSizeManagement(dictionaryCache)
            /\ subs' = [subs EXCEPT ![s] = EnterMiss(@, @.retry + 1)]
            /\ last' = NoLast
            /\ UNCHANGED <<appVars, trackEventThrows, puzzleData, signalHasAbort, abortControllerRef, isValidating,
                           errorMessage, foundWords, nCalls>>

\* usePuzzleData: the puzzle fetched on mount arrives (setPuzzleData(data))
fetchPuzzle(total) ==
    /\ ~puzzleData.loaded
    /\ puzzleData' = Puzzle(total)
    /\ last' = NoLast
    /\ UNCHANGED <<appVars, trackEventThrows, signalHasAbort, dictionaryCache, abortControllerRef,
                   isValidating, errorMessage, foundWords, subs, nCalls, answered>>

Next ==
    \/ \E total \in PuzzleTotals : fetchPuzzle(total)
    \/ \E word \in Candidates : validateWord(word)
    \/ \E s \in SubIds : CacheHitResumes(s)
    \/ \E s \in SubIds : TimeoutFires(s)
    \/ \E s \in SubIds, status \in Statuses : FetchResolves(s, status)
    \/ \E s \in SubIds, fetchMsg \in BOOLEAN : FetchRejects(s, fetchMsg)
    \/ \E s \in SubIds : AbortRejects(s)
    \/ \E s \in SubIds, body \in Bodies : BodyArrives(s, body)
    \/ \E s \in SubIds : RetryDelayElapses(s)

Spec == Init /\ [][Next]_vars

\* the same program with a telemetry sink that throws
SpecTelemetryDown == InitTelemetryDown /\ [][Next]_vars

\* Timers fire and settled promises run their continuations; the dictionary
\* service and the caller are under no obligation.
SpecFair ==
    /\ Spec
    /\ WF_vars(\E s \in SubIds : TimeoutFires(s))
    /\ WF_vars(\E s \in SubIds : CacheHitResumes(s))
    /\ WF_vars(\E s \in SubIds : AbortRejects(s))
    /\ WF_vars(\E s \in SubIds : RetryDelayElapses(s))

\* ------------------------------------------------- the application's steps
hookVars == <<trackEventThrows, signalHasAbort, dictionaryCache, abortControllerRef,
              isValidating, errorMessage, subs, nCalls, answered, last>>

\* the words the hook hands to onValidWord
AcceptedWords ==
    {Normalize(w) : w \in {c \in Candidates : FirstFailure(Normalize(c), <<>>) = "null"}}

\* The hook calls onValidWord(word): handleValidWord, and AppContent renders
\* again.
AcceptWord(word) ==
    /\ puzzleData.loaded
    /\ Len(foundWords) < MaxWords
    /\ foundWords' = handleValidWord(foundWords, word)
    /\ Rerender(foundWords')
    /\ UNCHANGED <<hookVars, puzzleData>>

\* The 'Continue Playing' button of the modal: setShowFinalTrivia(false).  The
\* modal and its FinalTrivia are unmounted, and the final trivia effect runs
\* again because showFinalTrivia changed.
ContinuePlaying ==
    /\ hasAccess /\ puzzleData.loaded /\ showFinalTrivia
    /\ events.finalShown < MaxShown
    /\ LET opens == finalTriviaEffect(progress, FALSE, triviaCompleted)
       IN  /\ showFinalTrivia' = opens
           /\ events' = [events EXCEPT !.finalShown = @ + (IF opens THEN 1 ELSE 0)]
    /\ isCorrect' = FALSE
    /\ UNCHANGED <<triviaCompleted, playedPuzzles, purchasedCredits, onCorrectTimers>>
    /\ UNCHANGED <<hookVars, puzzleData, foundWords>>

\* puzzleData.finalTrivia.answer
correctAnswer == <<"A", "b">>

\* what the player may type into the final trivia
Answers == {<<" ", "a", "B", " ">>, <<"b", "b">>, <<" ">>}

\* FinalTrivia.handleSubmit with userAnswer
FinalTriviaSubmit(userAnswer) ==
    /\ hasAccess /\ puzzleData.loaded /\ showFinalTrivia
    /\ ~isCorrect
    /\ IF Trim(userAnswer) # <<>> /\ ToLowerCase(Trim(userAnswer)) = ToLowerCase(correctAnswer)
       THEN /\ isCorrect' = TRUE
            /\ onCorrectTimers' = Append(onCorrectTimers,
                   [playedPuzzles |-> playedPuzzles, purchasedCredits |-> purchasedCredits])
       ELSE UNCHANGED <<isCorrect, onCorrectTimers>>
    /\ UNCHANGED <<showFinalTrivia, triviaCompleted, playedPuzzles, purchasedCredits, events>>
    /\ UNCHANGED <<hookVars, puzzleData, foundWords>>

\* The oldest onCorrect timer fires: handleTriviaComplete of the render that
\* created it, and the final trivia effect after the render that follows.
handleTriviaComplete ==
    /\ onCorrectTimers # <<>>
    /\ onCorrectTimers' = Tail(onCorrectTimers)
    /\ triviaCompleted' = TRUE
    /\ showFinalTrivia' = finalTriviaEffect(progress, FALSE, TRUE)
    /\ isCorrect' = FALSE
    /\ events' = [events EXCEPT !.finalSuccess = @ + 1]
    /\ IF trackEventThrows THEN UNCHANGED <<playedPuzzles, purchasedCredits>>
       ELSE consumeCredit(Head(onCorrectTimers))
    /\ UNCHANGED <<hookVars, puzzleData, foundWords>>

\* the application with a player who may have played and bought before
InitApp ==
    /\ trackEventThrows = FALSE
    /\ puzzleData = NoPuzzle
    /\ signalHasAbort = TRUE
    /\ dictionaryCache = EmptyCache
    /\ abortControllerRef = 0
    /\ isValidating = FALSE
    /\ errorMessage = "null"
    /\ foundWords = <<>>
    /\ subs = << >>
    /\ nCalls = 0
    /\ answered = << >>
    /\ last = NoLast
    /\ showFinalTrivia = FALSE
    /\ triviaCompleted = FALSE
    /\ playedPuzzles \in {0, 2}
    /\ purchasedCredits \in {0, 1}
    /\ isCorrect = FALSE
    /\ onCorrectTimers = <<>>
    /\ events = NoEvents

NextApp ==
    \/ \E total \in PuzzleTotals : fetchPuzzle(total)
    \/ \E word \in AcceptedWords : AcceptWord(word)
    \/ ContinuePlaying
    \/ \E userAnswer \in Answers : FinalTriviaSubmit(userAnswer)
    \/ handleTriviaComplete

SpecApp == InitApp /\ [][NextApp]_vars

TypeOK ==
    /\ nCalls \in 0..MaxSubs
    /\ DOMAIN subs \subseteq 1..nCalls
    /\ \A s \in Live : subs[s].pc \in {"hit", "fetch", "body", "delay"}
    /\ abortControllerRef \in {0, nCalls}

\* ================================================================== claims
\* calls whose remote check is pending and whose signal has not been aborted
InFlightNotCancelled ==
    {s \in Live : subs[s].pc \in {"fetch", "body", "delay"} /\ subs[s].signal = "live"}

\* C1: at any time at most one remote dictionary check that has not been
\* cancelled is pending: every validateWord call cancels the pending check of
\* every earlier call.
C1_AtMostOneInFlight == Cardinality(InFlightNotCancelled) <= 1

\* C2: a call that was superseded by a later validateWord call while it was
\* unresolved is never passed to onValidWord and never sets the error message.
C2_SupersededNeverApplied == last.superseded => ~last.onValid /\ ~last.errSet

\* C3: the accepted-word list never holds two entries that are equal after
\* trim and lowercase.
C3_NoDuplicateAccepted ==
    \A j, k \in 1..Len(foundWords) :
        j # k => Normalize(foundWords[j]) # Normalize(foundWords[k])

\* C6: the dictionary cache never holds more than CACHE_SIZE_LIMIT entries.
C6_CacheWithinLimit == CacheSize(dictionaryCache) <= CACHE_SIZE_LIMIT

\* the latest step completed a call whose final attempt ended in a network
\* failure (fetch rejected with a TypeError, no response)
EndedInNetworkFailure ==
    last.outcome # "none" /\ last.caught.name = "TypeError" /\ last.status = NoResponse

\* C4: a remote check issues at most 1 + MAX_RETRIES lookups; when its attempts
\* fail with a retryable kind (here: a network failure) it issues exactly
\* 1 + MAX_RETRIES, then sets the message of that kind and does not call
\* onValidWord.
C4_RetryBound ==
    /\ \A s \in Live : subs[s].lookups <= 1 + MAX_RETRIES
    /\ last.lookups <= 1 + MAX_RETRIES
    /\ EndedInNetworkFailure =>
          /\ last.lookups = 1 + MAX_RETRIES
          /\ errorMessage = getErrorMessage("NETWORK_ERROR")
          /\ ~last.onValid

\* C5: once the dictionary service has answered for a word (found, empty
\* result or not found), every later validateWord call for that word that passes
\* the local rules issues no lookup and gets that answer from the cache.
C5_NoSecondLookup ==
    [][\A w \in DOMAIN answered :
          (nCalls' = nCalls + 1 /\ nCalls' \in DOMAIN subs' /\ subs'[nCalls'].word = w)
          => /\ subs'[nCalls'].pc = "hit"
             /\ subs'[nCalls'].lookups = 0
             /\ subs'[nCalls'].hitVal = answered[w]]_vars

\* C7: whenever the cache loses an entry it loses exactly one, the first in
\* insertion order; storing under a key that is present leaves the insertion
\* order of the keys as it was.
KeysOf(entries) == [j \in 1..Len(entries) |-> entries[j].k]

C7_EvictsOldestOnly ==
    [][LET c == dictionaryCache
           d == dictionaryCache'
       IN  /\ CacheSize(d) < CacheSize(c) =>
                /\ CacheSize(d) = CacheSize(c) - 1
                /\ c.head # <<>> =>
                      d.head = Tail(c.head) /\ d.filler = c.filler /\ d.tail = c.tail
                /\ c.head = <<>> /\ c.filler > 0 =>
                      d.head = <<>> /\ d.filler = c.filler - 1 /\ d.tail = c.tail
                /\ c.head = <<>> /\ c.filler = 0 =>
                      d.head = <<>> /\ d.filler = 0 /\ d.tail = Tail(c.tail)
           /\ last'.stored = "present" =>
                /\ KeysOf(d.head) = KeysOf(c.head)
                /\ d.filler = c.filler
                /\ KeysOf(d.tail) = KeysOf(c.tail)]_vars

\* the oldest entry of the full initial cache has been evicted, and the latest
\* step stored a result under a key that was present
C7_Witness ==
    /\ dictionaryCache.head = <<>>
    /\ dictionaryCache.filler = CACHE_SIZE_LIMIT - 1
    /\ last.stored = "present"

\* C8: every validateWord call that starts a remote check eventually finishes,
\* also when the dictionary service never answers.
C8_EveryCallFinishes == \A s \in SubIds : (s \in Live) ~> (s \notin Live)

\* C9: a call whose attempt was ended by the per-attempt timeout is classified
\* TIMEOUT and retried: it ends in an error only after 1 + MAX_RETRIES attempts
\* and then with the message 'Request timed out. Please try again.'.
C9_TimeoutClassified ==
    last.outcome # "none" /\ last.signal = "timeout" =>
        /\ last.errType = "TIMEOUT"
        /\ last.lookups = 1 + MAX_RETRIES
        /\ errorMessage = "Request timed out. Please try again."

\* C10: a call whose remote check was cancelled by a later validateWord call
\* sets no error message, emits no 'API Error' event and does not call
\* onValidWord.
C10_CancelledIsSilent ==
    last.signal = "caller" /\ last.lookups >= 1 =>
        ~last.errSet /\ ~last.apiErrorEvent /\ ~last.onValid

\* C11: once a call has been cancelled no further attempt is started for it:
\* a cancelled call that waits for its retry leaves the wait only by ending as
\* aborted, with the cache untouched, and its attempt count never grows.
C11_NoRetryAfterCancel ==
    [][\A s \in Live :
          subs[s].signal = "caller" =>
             /\ s \in DOMAIN subs' =>
                   /\ subs'[s].lookups = subs[s].lookups
                   /\ subs'[s].retry = subs[s].retry
             /\ subs[s].pc = "delay" /\ (s \notin DOMAIN subs' \/ subs'[s].pc # "delay") =>
                   /\ s \notin DOMAIN subs'
                   /\ last'.outcome = "aborted"
                   /\ dictionaryCache' = dictionaryCache]_vars

\* C12: a call whose lookup was answered with HTTP 404 ends like a call whose
\* lookup returned an empty result: outcome rejected by the dictionary, message
\* 'Not a valid English word.', no 'API Error' event.
C12_NotFoundIsRejection ==
    last.outcome # "none" /\ last.status = 404 =>
        /\ last.outcome = "rejectedRemote"
        /\ errorMessage = "Not a valid English word."
        /\ ~last.apiErrorEvent

\* C13: an attempt that fails with a non-retryable kind (429, another
\* unexpected status, a body that is not an array, a body that is not JSON) is
\* the call's last: the call ends in that step as errored with the message of
\* the kind, having issued no further lookup and accepted nothing; this also
\* holds when the failing attempt is a retry.
C13_NonRetryableEndsCall ==
    [][\A s \in Live :
          LET ends(msg) ==
                /\ s \notin DOMAIN subs'
                /\ last'.outcome = "errored"
                /\ last'.lookups = subs[s].lookups
                /\ errorMessage' = msg
                /\ ~last'.onValid
                /\ foundWords' = foundWords
          IN  /\ FetchResolves(s, 429) =>
                    ends("Too many requests. Please wait a moment and try again.")
              /\ FetchResolves(s, 400) =>
                    ends("Error validating word. Please try again.")
              /\ BodyArrives(s, "object") =>
                    ends("Received invalid data. Please try again.")
              /\ BodyArrives(s, "malformed") =>
                    ends("Error validating word. Please try again.")]_vars

\* a call has just ended with the rate-limit error on its second or third attempt
C13_Witness ==
    /\ last.outcome = "errored"
    /\ last.errType = "API_RATE_LIMIT"
    /\ last.lookups >= 2

\* the number of characters of a candidate that are not blanks
Letters(word) == Cardinality({i \in 1..Len(word) : word[i] # " "})

\* a validateWord step that rejected locally with message msg: no call was
\* started, no lookup issued, the cache and the accepted words are as before
RejectedLocally(msg) ==
    /\ errorMessage' = msg
    /\ last'.outcome = "rejectedLocal"
    /\ nCalls' \notin DOMAIN subs'
    /\ \A s \in DOMAIN subs' : s \in DOMAIN subs /\ subs'[s].lookups = subs[s].lookups
    /\ dictionaryCache' = dictionaryCache
    /\ foundWords' = foundWords

\* C14: a candidate with fewer than minWordLength letters after trimming is
\* rejected with the length message, without a lookup, a cache change or an
\* accepted word, also when it lacks the center letter.
C14_TooShortRejected ==
    [][\A word \in Candidates :
          validateWord(word) /\ Letters(word) < minWordLength =>
              RejectedLocally("Words must be at least 4 letters long.")]_vars

\* a too-short candidate has just been rejected
C14_Witness ==
    /\ last.outcome = "rejectedLocal"
    /\ errorMessage = "Words must be at least 4 letters long."

\* C15: a candidate of sufficient length that holds the center letter in
\* neither case is rejected with the center-letter message, without a lookup
\* or an accepted word.
C15_MissingCenterRejected ==
    [][\A word \in Candidates :
          /\ validateWord(word)
          /\ Letters(word) >= minWordLength
          /\ \A i \in 1..Len(word) : word[i] \notin {"a", "A"}
          => RejectedLocally("Word must contain the letter \"A\".")]_vars

\* a candidate without the center letter has just been rejected
C15_Witness ==
    /\ last.outcome = "rejectedLocal"
    /\ errorMessage = "Word must contain the letter \"A\"."

\* C16: a candidate that passes the length and center-letter rules and whose
\* trimmed, lowercased form equals the lowercased form of an accepted word is
\* rejected with 'You already found this word!', without a lookup or an
\* accepted word.
C16_DuplicateRejected ==
    [][\A word \in Candidates :
          /\ validateWord(word)
          /\ Letters(word) >= minWordLength
          /\ \E i \in 1..Len(word) : word[i] \in {"a", "A"}
          /\ \E j \in 1..Len(foundWords) :
                ToLowerCase(foundWords[j]) = ToLowerCase(Trim(word))
          => RejectedLocally("You already found this word!")]_vars

\* a candidate has just been rejected as a duplicate of an accepted word
C16_Witness ==
    /\ last.outcome = "rejectedLocal"
    /\ errorMessage = "You already found this word!"
    /\ foundWords # <<>>

\* C17: a call that passed the local rules and was not superseded calls
\* onValidWord exactly once, with the trimmed and lowercased word, if the
\* dictionary answers with an entry for the word (the error message is null
\* afterwards), and does not call it if the dictionary answers with no entry
\* (the message is 'Not a valid English word.'); a call acts once only: it is
\* gone after its answer and its id is never used again.
C17_AcceptIffValid ==
    [][/\ \A word \in Candidates :
             validateWord(word) /\ nCalls' \in DOMAIN subs' =>
                 LET w == subs'[nCalls'].word
                 IN  /\ Len(w) = Letters(word)
                     /\ \A i \in 1..Len(w) : w[i] \in {"a", "b"}
                     /\ w = ToLowerCase(Trim(word))
       /\ \A s \in DOMAIN subs' \ DOMAIN subs : s = nCalls + 1 /\ nCalls' = s
       /\ \A s \in Live :
             ~subs[s].superseded =>
                /\ BodyArrives(s, "entries") =>
                      /\ foundWords' = Append(foundWords, subs[s].word)
                      /\ errorMessage' = "null"
                      /\ s \notin DOMAIN subs'
                /\ BodyArrives(s, "noWord") \/ BodyArrives(s, "empty") =>
                      /\ foundWords' = foundWords
                      /\ errorMessage' = "Not a valid English word."
                      /\ s \notin DOMAIN subs']_vars

\* a call that was not superseded has just been accepted on the dictionary's
\* answer
C17_Witness ==
    /\ last.outcome = "accepted"
    /\ ~last.superseded
    /\ last.lookups >= 1
    /\ last.status = 200
    /\ errorMessage = "null"
    /\ foundWords # <<>>

\* C18: progress lies in [0, 1]: the number of accepted words never exceeds
\* the length of the puzzle's validWords list.
C18_ProgressInUnitInterval ==
    /\ 0 <= progress.num
    /\ progress.num <= progress.den
    /\ puzzleData.loaded /\ puzzleData.total > 0 => Len(foundWords) <= puzzleData.total

\* C19: every step leaves the accepted-word list as it is or appends exactly
\* one word at its end, and progress never decreases.
C19_AppendOnly ==
    [][/\ \/ foundWords' = foundWords
          \/ /\ Len(foundWords') = Len(foundWords) + 1
             /\ SubSeq(foundWords', 1, Len(foundWords)) = foundWords
       /\ progress'.num * progress.den >= progress.num * progress'.den]_vars

\* two different words have been accepted, the second after the first
C19_Witness ==
    /\ Len(foundWords) >= 2
    /\ foundWords[1] # foundWords[2]
    /\ progress.num = 2

\* the number of the code's thresholds (in hundredths) that accepted / total
\* has reached
ThresholdsReached(accepted, total) ==
    Cardinality({t \in {25, 40, 60, 80} : t * total <= 100 * accepted})

\* C20: unlockedCluesCount is the number of thresholds that are at most
\* progress = accepted words / puzzle total; progress is 0 when the total is 0
\* or no puzzle is loaded (no clue is unlocked then); with a total of 10 and 3
\* accepted words one clue is unlocked; the count never decreases.
C20_UnlockedCluesCount ==
    /\ [](/\ puzzleData.loaded /\ puzzleData.total > 0 =>
               /\ progress.num = Len(foundWords) /\ progress.den = puzzleData.total
               /\ unlockedCluesCount = ThresholdsReached(Len(foundWords), puzzleData.total)
          /\ ~puzzleData.loaded \/ puzzleData.total = 0 =>
               progress.num = 0 /\ unlockedCluesCount = 0
          /\ puzzleData.loaded /\ puzzleData.total = 10 /\ Len(foundWords) = 3 =>
               unlockedCluesCount = 1)
    /\ [][unlockedCluesCount' >= unlockedCluesCount]_vars

\* a quarter of the puzzle's four words is found: progress is exactly the
\* first threshold and one clue is unlocked
C20_Witness ==
    /\ puzzleData.loaded
    /\ puzzleData.total = 4
    /\ Len(foundWords) = 1
    /\ unlockedCluesCount = 1

\* C25: while the remote check of the most recent validateWord call is pending
\* isValidating is true and the stored abort controller is that call's; when no
\* remote check is pending isValidating is false.
C25_LoadingFollowsLatestCheck ==
    /\ nCalls \in Live => isValidating /\ abortControllerRef = nCalls
    /\ Live = {} => ~isValidating

\* C26: the cache loses an entry only as part of inserting a new one: while no
\* check is pending and no new key has been stored, the cache holds the entries
\* it held initially, also when it was at capacity.
C26_NoEvictionWithoutInsert ==
    Live = {} /\ dictionaryCache.tail = <<>> =>
        \E c \in {EmptyCache, FullCache} :
            /\ KeysOf(dictionaryCache.head) = KeysOf(c.head)
            /\ dictionaryCache.filler = c.filler

\* C27: a failed attempt and a check that ends in an error or in cancellation
\* store nothing: the step leaves the cache as it is, and a later validateWord
\* call for a word without a cache entry issues a lookup.
C27_FailuresNotCached ==
    [][/\ \A s \in Live :
             \/ s \in DOMAIN subs' /\ subs'[s].pc = "delay" /\ subs[s].pc # "delay"
             \/ s \notin DOMAIN subs' /\ last'.outcome \in {"errored", "aborted"}
             => dictionaryCache' = dictionaryCache
       /\ \A word \in Candidates :
             /\ validateWord(word)
             /\ nCalls' \in DOMAIN subs'
             /\ ~CacheHas(dictionaryCache, ToLowerCase(Trim(word)))
             => subs'[nCalls'].pc = "fetch" /\ subs'[nCalls'].lookups = 1]_vars

\* a check has just ended in an error after all its attempts failed, and the
\* cache has no entry at all
C27_Witness ==
    /\ last.outcome = "errored"
    /\ last.lookups = 1 + MAX_RETRIES
    /\ CacheSize(dictionaryCache) = 0

\* the closed set of user-facing messages
UserFacingMessages ==
    {"null",
     "Words must be at least 4 letters long.",
     "Word must contain the letter \"A\".",
     "You already found this word!",
     "Not a valid English word.",
     "No internet connection. Please check your network and try again.",
     "Too many requests. Please wait a moment and try again.",
     "Dictionary service is temporarily unavailable. Please try again later.",
     "Request timed out. Please try again.",
     "Received invalid data. Please try again.",
     "Error validating word. Please try again."}

C24_TelemetryFailureHarmless ==
    /\ last.onValid => errorMessage = "null" /\ ~last.apiErrorEvent
    /\ last.outcome = "rejectedRemote" => errorMessage = "Not a valid English word."
    /\ ~last.rejected
    /\ Live = {} => ~isValidating

\* C28: whenever a validateWord call made by WordInput.handleSubmit ends,
\* whatever its outcome, handleSubmit clears the input.
C28_InputCleared == last.outcome # "none" => last.inputCleared

\* C21: the final trivia is shown only while progress >= 0.90 and it has not
\* been completed, and once it has been completed it is never shown again,
\* whatever further words are accepted.
C21_FinalTriviaOneShot ==
    /\ [](showFinalTrivia =>
             AtLeast(progress, FINAL_TRIVIA_THRESHOLD) /\ ~triviaCompleted)
    /\ [][triviaCompleted => triviaCompleted' /\ ~showFinalTrivia']_vars

\* the final trivia was shown and completed, and a word was accepted after that
C21_Witness ==
    /\ triviaCompleted /\ ~showFinalTrivia
    /\ events.finalShown > 0
    /\ events.validAfterSuccess > 0
    /\ AtLeast(progress, FINAL_TRIVIA_THRESHOLD)

\* C22: after 'Continue Playing' the final trivia is hidden.
C22_DismissedStaysHidden == [][ContinuePlaying => ~showFinalTrivia']_vars

\* C29: the number of 'Clue Unlocked' events equals the unlocked-clue count, and
\* there is no such event before the first word is accepted.
C29_OneEventPerClue ==
    /\ events.clueUnlocked = unlockedCluesCount
    /\ foundWords = <<>> => events.clueUnlocked = 0

\* C30: handleTriviaComplete runs at most once, playedPuzzles never exceeds
\* the free limit and purchasedCredits never goes below 0.
C30_AtMostOneCredit ==
    /\ events.finalSuccess <= 1
    /\ playedPuzzles <= FREE_PUZZLE_LIMIT
    /\ purchasedCredits >= 0

====
